---- MODULE Spec2Model ----
(***************************************************************************)
(* Model of the streaming tool-calling agent of web_search_agent:          *)
(*   lambda-code/agent.py      QueueCallbackHandler, execute_tool,         *)
(*                             CustomAgentExecutor.invoke                  *)
(*   lambda-code/app.py        stream_generator (polling consumer)         *)
(*   application/api/lambda_handler.py  stream_response (async-for over    *)
(*                             QueueCallbackHandler.__aiter__)             *)
(*                                                                         *)
(* Text is a sequence of symbols.  The argument text of a tool call uses   *)
(* three symbols: "q" is JSON framing, "5" is one character of the value   *)
(* of the `answer` argument, "#" is a character after which the text no    *)
(* longer parses to a dict.                                                *)
(***************************************************************************)
EXTENDS Integers, Sequences, FiniteSets, TLC

VARIABLES
    pc,                    \* position of the invoke task
    count,                 \* invoke: count
    final_answer,          \* invoke: final_answer (None or text)
    final_answer_call,     \* invoke: final_answer_call (unbound or a call)
    agent_scratchpad,      \* invoke: agent_scratchpad
    outputs,               \* stream: outputs of the turn being streamed
    tool_calls,            \* invoke: tool_calls of the turn being dispatched
    tool_obs,              \* state / result of each execute_tool task
    done_order,            \* order in which the tool tasks completed
    chat_history,          \* CustomAgentExecutor.chat_history
    result,                \* value returned by invoke
    queue,                 \* asyncio.Queue shared with the consumer
    final_answer_seen,     \* QueueCallbackHandler.final_answer_seen
    budget,                \* deltas the model may still emit
    error,                 \* what made the invoke task raise ("" = nothing)
    turns,                 \* history: tool_calls of every folded turn
    ended,                 \* history: outputs and sentinel of every ended turn
    published,             \* history: every item put on the queue
    cpc,                   \* position of the stream consumer
    final_answer_started,  \* consumer flag
    final_answer_complete, \* consumer flag
    out,                   \* text fragments yielded by the consumer
    received,              \* history: every item taken from the queue
    invocations,           \* invocations of invoke started on the executor
    completed,             \* invocations of invoke that returned
    peer,                  \* a second invoke task on the same executor
    frags,                 \* deltas of one tool call still to be streamed
    whole                  \* the same tool call as one unsplit chunk

sessionVars == <<invocations, completed, peer>>
splitVars == <<frags, whole>>
invokeVars == <<pc, count, final_answer, final_answer_call, agent_scratchpad,
                outputs, tool_calls, tool_obs, done_order, chat_history,
                result, budget, error, turns, ended, sessionVars, splitVars>>
handlerVars == <<queue, final_answer_seen, published>>
consumerVars == <<cpc, final_answer_started, final_answer_complete, out,
                  received>>
vars == <<invokeVars, handlerVars, consumerVars>>

----------------------------------------------------------------------------
(* Bounds and program constants *)

MaxDeltas == 3            \* deltas the model emits during one invocation
MaxStreamDeltas == 2      \* the same, when a stream consumer runs alongside
max_iterations == 3       \* CustomAgentExecutor.__init__ default

\* Queue items: a sentinel string (str /= "") or a chunk of the model call
DONE == [str |-> "<<DONE>>", tool_call_chunks |-> <<>>]
STEP_END == [str |-> "<<STEP_END>>", tool_call_chunks |-> <<>>]
NoAnswerFound == <<"No answer found">>
UserInput == <<"input">>

----------------------------------------------------------------------------
(* Optional values (Python None) *)

None == [is_none |-> TRUE, v |-> <<>>]
Some(x) == [is_none |-> FALSE, v |-> x]

\* Python truthiness of a str | None value
Truthy(x) == ~x.is_none /\ x.v /= <<>>

----------------------------------------------------------------------------
(* Deltas of the model call.  A delta carries a list of tool-call chunks   *)
(* (at most one here); a chunk has id (0 = absent), name ("" = absent) and *)
(* an args text fragment.                                                  *)

Chunk(i, n, a) == [id |-> i, name |-> n, args |-> a]

ChunkSet ==
    { Chunk(1, "add", <<"q">>), Chunk(2, "add", <<"q">>),
      Chunk(1, "final_answer", <<"q">>), Chunk(2, "final_answer", <<"q">>),
      Chunk(0, "", <<"5">>), Chunk(0, "", <<"#">>) }

DeltaSet == { [str |-> "", tool_call_chunks |-> <<>>] } \cup
            { [str |-> "", tool_call_chunks |-> <<c>>] : c \in ChunkSet }

\* an addition that puts the new fragment in front
AddChunkInFront(x, token) ==
    [x EXCEPT !.args = token.tool_call_chunks[1].args \o x.args]

\* AIMessageChunk.__add__ as used by outputs[-1] += token
AddChunk(x, token) ==
    [x EXCEPT !.args = x.args \o token.tool_call_chunks[1].args]

\* AIMessageChunk.tool_calls: the call once its args text parses to a dict
Parses(text) == \A i \in 1..Len(text) : text[i] /= "#"

ToolCallsOf(x) ==
    IF Parses(x.args) THEN <<[name |-> x.name, args |-> x.args, id |-> x.id]>>
    ELSE <<>>

\* value of the `answer` key of a parsed args text
IsPayload(ch) == ch = "5"
AnswerOf(args) == SelectSeq(args, IsPayload)

----------------------------------------------------------------------------
(* Messages *)

AIMessage(call) ==
    [type |-> "ai", content |-> <<>>, tool_calls |-> <<call>>,
     tool_call_id |-> call.id]

ToolMessage(c, id) ==
    [type |-> "tool", content |-> c, tool_calls |-> <<>>, tool_call_id |-> id]

HumanMessage(c) ==
    [type |-> "human", content |-> c, tool_calls |-> <<>>, tool_call_id |-> 0]

AnswerMessage(c) ==
    [type |-> "ai", content |-> c, tool_calls |-> <<>>, tool_call_id |-> 0]

Fallback == [answer |-> NoAnswerFound, tools_used |-> <<>>]

----------------------------------------------------------------------------
(* QueueCallbackHandler *)

\* a queue of one slot that drops what does not fit
QueuePutBounded(q, item) == IF Len(q) >= 1 THEN q ELSE Append(q, item)

\* asyncio.Queue.put_nowait on an unbounded queue
QueuePut(q, item) == Append(q, item)

\* a queue handing out its newest item first
QueueGetNewest(q) == [item |-> q[Len(q)], rest |-> SubSeq(q, 1, Len(q) - 1)]

\* asyncio.Queue.get on a non-empty queue: the item and the remaining queue
QueueGet(q) == [item |-> Head(q), rest |-> Tail(q)]

\* on_llm_new_token: the tool name it reads from the chunk ("" when none)
HandlerToolName(token) ==
    IF token.tool_call_chunks = <<>> THEN ""
    ELSE LET c == token.tool_call_chunks[1]
         IN IF ToolCallsOf(c) /= <<>> THEN ToolCallsOf(c)[1].name ELSE c.name

\* on_llm_new_token: the new value of final_answer_seen
SeenAfterToken(seen, token) ==
    IF HandlerToolName(token) = "final_answer" THEN TRUE ELSE seen

\* a handler that ends every turn with <<DONE>>
EndOfTurnAlwaysDone(seen) == DONE

\* on_llm_end: the sentinel put on the queue
EndOfTurnSentinel(seen) == IF seen THEN DONE ELSE STEP_END

----------------------------------------------------------------------------
(* CustomAgentExecutor.invoke: pure parts *)

\* an accumulation that starts a call from a continuation without a call
AccumulateOrphan(outs, token) ==
    IF token.tool_call_chunks = <<>> THEN outs
    ELSE LET c == token.tool_call_chunks[1]
         IN IF c.id /= 0 \/ c.name /= "" \/ outs = <<>> THEN Append(outs, c)
            ELSE [outs EXCEPT ![Len(outs)] = AddChunk(outs[Len(outs)], token)]

\* stream(): outputs after one token
Accumulate(outs, token) ==
    IF token.tool_call_chunks = <<>> THEN outs
    ELSE LET c == token.tool_call_chunks[1]
         IN IF c.id /= 0 \/ c.name /= "" THEN Append(outs, c)
            ELSE IF outs /= <<>>
                 THEN [outs EXCEPT ![Len(outs)] = AddChunk(outs[Len(outs)], token)]
                 ELSE outs

\* stream(): the returned list, one AIMessage per output with tool_calls
HasToolCalls(x) == ToolCallsOf(x) /= <<>>
Complete(x) == AIMessage(ToolCallsOf(x)[1])
StreamResult(outs) ==
    LET kept == SelectSeq(outs, HasToolCalls)
    IN [i \in 1..Len(kept) |-> Complete(kept[i])]

\* a loop test that admits one more iteration
LoopContinuesInclusive(c) == c <= max_iterations

\* while count < self.max_iterations
LoopContinues(c) == c < max_iterations

\* execute_tool: the ToolMessage of a call whose tool returned
ToolOut(call) == <<call.name>> \o call.args
ExecuteTool(msg) ==
    ToolMessage(ToolOut(msg.tool_calls[1]), msg.tool_calls[1].id)

\* results collected in the order the tasks completed
GatheredAsCompleted(calls, obs, order) ==
    [i \in 1..Len(calls) |-> obs[order[i]].v]

\* a gather that returns without waiting for its tasks
GatherDoneEarly(calls, obs) == TRUE

\* a gather that never returns
GatherNeverDone(calls, obs) == FALSE

\* await asyncio.gather: it returns once every task has returned
GatherDone(calls, obs) == \A i \in 1..Len(calls) : ~obs[i].is_none

\* asyncio.gather: results in the order of the awaitables
Gathered(calls, obs, order) == [i \in 1..Len(calls) |-> obs[i].v]

\* id2tool_obs: a dict keyed by tool_call_id, the last entry of a key wins
LastWithId(calls, k) ==
    CHOOSE i \in 1..Len(calls) :
        /\ calls[i].tool_call_id = k
        /\ \A j \in 1..Len(calls) : calls[j].tool_call_id = k => j <= i
Id2ToolObs(calls, gathered) ==
    [k \in { calls[i].tool_call_id : i \in 1..Len(calls) } |->
        gathered[LastWithId(calls, k)]]

\* agent_scratchpad.extend([tool_call, id2tool_obs[...]]) for every call
Extended(pad, calls, id2) ==
    pad \o [j \in 1..(2 * Len(calls)) |->
                IF j % 2 = 1 THEN calls[(j + 1) \div 2]
                ELSE id2[calls[j \div 2].tool_call_id]]

\* the scan for the first final_answer call of the turn (0 when none)
FinalIndexes(calls) ==
    { i \in 1..Len(calls) : calls[i].tool_calls[1].name = "final_answer" }
FirstFinal(calls) ==
    IF FinalIndexes(calls) = {} THEN 0
    ELSE CHOOSE i \in FinalIndexes(calls) : \A j \in FinalIndexes(calls) : i <= j

\* the value of the return statement
ReturnValue(fa, fa_call) == IF Truthy(fa) THEN fa_call.v ELSE Fallback

\* the input of the n-th invocation on the executor
InputOf(n) == [i \in 1..n |-> UserInput[1]]

\* a history that is overwritten with the new messages
ReplacedHistory(hist, msgs) == msgs

\* self.chat_history.extend([...])
ExtendedHistory(hist, msgs) == hist \o msgs

\* the AIMessage content appended to chat_history
HistoryAnswer(fa) == IF Truthy(fa) THEN fa.v ELSE NoAnswerFound

\* the locals of a second invoke task that was not started
PeerIdle == [pc |-> "idle", count |-> 0, final_answer |-> None]

----------------------------------------------------------------------------
(* Initial state: the queue, the handler and the invoke task were created *)

InitFrom(deltas, script) ==
    /\ pc = "while"
    /\ count = 0
    /\ final_answer = None
    /\ final_answer_call = None
    /\ agent_scratchpad = <<>>
    /\ outputs = <<>>
    /\ tool_calls = <<>>
    /\ tool_obs = <<>>
    /\ done_order = <<>>
    /\ chat_history = <<>>
    /\ result = None
    /\ budget = deltas
    /\ error = ""
    /\ turns = <<>>
    /\ ended = <<>>
    /\ queue = <<>>
    /\ final_answer_seen = FALSE
    /\ published = <<>>
    /\ cpc = "poll"
    /\ final_answer_started = FALSE
    /\ final_answer_complete = FALSE
    /\ out = <<>>
    /\ received = <<>>
    /\ invocations = 1
    /\ completed = 0
    /\ peer = PeerIdle
    /\ frags = script
    /\ whole = Chunk(0, "", <<>>)

InitWith(deltas) == InitFrom(deltas, <<>>)

\* invoke alone
InitInvoke == InitWith(MaxDeltas)

\* invoke with a stream consumer
Init == InitWith(MaxStreamDeltas)

\* a test that misses a task that ended with an exception
TaskDoneReturnedOnly == pc = "returned"

\* task.done(): the task returned or raised
TaskDone == pc \in {"returned", "raised"}

----------------------------------------------------------------------------
(* CustomAgentExecutor.invoke *)

\* the while test succeeds and stream() starts the model call
LoopEnter ==
    /\ pc = "while"
    /\ LoopContinues(count)
    /\ pc' = "astream"
    /\ outputs' = <<>>
    /\ UNCHANGED <<count, final_answer, final_answer_call, agent_scratchpad,
                   tool_calls, tool_obs, done_order, chat_history, result,
                   budget, error, turns, ended>>
    /\ UNCHANGED <<handlerVars, consumerVars, sessionVars, splitVars>>

\* the model emits one delta: on_llm_new_token, then the body of the
\* async for of stream()
OnToken(token) ==
    /\ pc = "astream"
    /\ budget > 0
    /\ budget' = budget - 1
    /\ final_answer_seen' = SeenAfterToken(final_answer_seen, token)
    /\ queue' = QueuePut(queue, token)
    /\ published' = Append(published, token)
    /\ outputs' = Accumulate(outputs, token)
    /\ UNCHANGED <<pc, count, final_answer, final_answer_call,
                   agent_scratchpad, tool_calls, tool_obs, done_order,
                   chat_history, result, error, turns, ended>>
    /\ UNCHANGED <<consumerVars, sessionVars, splitVars>>

\* the model call ends: on_llm_end, stream() returns, gather starts the
\* execute_tool tasks
OnLlmEnd ==
    /\ pc = "astream"
    /\ queue' = QueuePut(queue, EndOfTurnSentinel(final_answer_seen))
    /\ published' = Append(published, EndOfTurnSentinel(final_answer_seen))
    /\ tool_calls' = StreamResult(outputs)
    /\ tool_obs' = [i \in 1..Len(StreamResult(outputs)) |-> None]
    /\ done_order' = <<>>
    /\ ended' = Append(ended, [outputs |-> outputs,
                               sentinel |-> EndOfTurnSentinel(final_answer_seen)])
    /\ pc' = "gather"
    /\ UNCHANGED <<count, final_answer, final_answer_call, agent_scratchpad,
                   outputs, chat_history, result, budget, error, turns>>
    /\ UNCHANGED <<final_answer_seen, consumerVars, sessionVars, splitVars>>

\* an invoke that records the exchange before the exception leaves it
ModelFailsRecorded ==
    /\ pc = "astream"
    /\ pc' = "raised"
    /\ error' = "model"
    /\ chat_history' = ExtendedHistory(chat_history,
           <<HumanMessage(InputOf(invocations)),
             AnswerMessage(HistoryAnswer(final_answer))>>)
    /\ UNCHANGED <<count, final_answer, final_answer_call, agent_scratchpad,
                   outputs, tool_calls, tool_obs, done_order,
                   result, budget, turns, ended>>
    /\ UNCHANGED <<handlerVars, consumerVars, sessionVars, splitVars>>

\* the model call raises: the exception leaves stream() and invoke
ModelFails ==
    /\ pc = "astream"
    /\ pc' = "raised"
    /\ error' = "model"
    /\ UNCHANGED <<count, final_answer, final_answer_call, agent_scratchpad,
                   outputs, tool_calls, tool_obs, done_order, chat_history,
                   result, budget, turns, ended>>
    /\ UNCHANGED <<handlerVars, consumerVars, sessionVars, splitVars>>

\* one execute_tool task returns its ToolMessage
ToolCompletes(i) ==
    /\ pc = "gather"
    /\ tool_obs[i].is_none
    /\ tool_obs' = [tool_obs EXCEPT ![i] = Some(ExecuteTool(tool_calls[i]))]
    /\ done_order' = Append(done_order, i)
    /\ UNCHANGED <<pc, count, final_answer, final_answer_call,
                   agent_scratchpad, outputs, tool_calls, chat_history,
                   result, budget, error, turns, ended>>
    /\ UNCHANGED <<handlerVars, consumerVars, sessionVars, splitVars>>

\* one execute_tool task raises: gather re-raises it into invoke
ToolRaises(i) ==
    /\ pc = "gather"
    /\ tool_obs[i].is_none
    /\ pc' = "raised"
    /\ error' = "tool"
    /\ UNCHANGED <<count, final_answer, final_answer_call, agent_scratchpad,
                   outputs, tool_calls, tool_obs, done_order, chat_history,
                   result, budget, turns, ended>>
    /\ UNCHANGED <<handlerVars, consumerVars, sessionVars, splitVars>>

\* gather returns: the pairs are appended, count is incremented and the
\* turn is scanned for final_answer
Fold ==
    /\ pc = "gather"
    /\ GatherDone(tool_calls, tool_obs)
    /\ LET gathered == Gathered(tool_calls, tool_obs, done_order)
           id2tool_obs == Id2ToolObs(tool_calls, gathered)
           k == FirstFinal(tool_calls)
       IN /\ agent_scratchpad' = Extended(agent_scratchpad, tool_calls, id2tool_obs)
          /\ count' = count + 1
          /\ IF k /= 0
             THEN /\ final_answer_call' = Some(tool_calls[k].tool_calls[1])
                  /\ final_answer' = Some(AnswerOf(tool_calls[k].tool_calls[1].args))
                  /\ pc' = "break"
             ELSE /\ UNCHANGED <<final_answer_call, final_answer>>
                  /\ pc' = "while"
    /\ turns' = Append(turns, tool_calls)
    /\ UNCHANGED <<outputs, tool_calls, tool_obs, done_order, chat_history,
                   result, budget, error, ended>>
    /\ UNCHANGED <<handlerVars, consumerVars, sessionVars, splitVars>>

\* the loop is left: chat_history is extended and invoke returns
Return ==
    /\ \/ pc = "break"
       \/ pc = "while" /\ ~LoopContinues(count)
    /\ chat_history' = ExtendedHistory(chat_history,
           <<HumanMessage(InputOf(invocations)),
             AnswerMessage(HistoryAnswer(final_answer))>>)
    /\ completed' = completed + 1
    /\ result' = Some(ReturnValue(final_answer, final_answer_call))
    /\ pc' = "returned"
    /\ UNCHANGED <<count, final_answer, final_answer_call, agent_scratchpad,
                   outputs, tool_calls, tool_obs, done_order, budget, error,
                   turns, ended>>
    /\ UNCHANGED <<handlerVars, consumerVars, invocations, peer, splitVars>>

InvokeNext ==
    \/ LoopEnter
    \/ \E token \in DeltaSet : OnToken(token)
    \/ OnLlmEnd
    \/ ModelFails
    \/ \E i \in 1..Len(tool_calls) : ToolCompletes(i)
    \/ \E i \in 1..Len(tool_calls) : ToolRaises(i)
    \/ Fold
    \/ Return

SpecInvoke == InitInvoke /\ [][InvokeNext]_vars

----------------------------------------------------------------------------
(* Stream consumers: rendering of one queue item *)

StepClose == <<"</step>">>
StepOpen(name) == <<"<step><step_name>", name, "</step_name>">>

\* stream_generator (lambda-code): tool_name and tool_args read from a chunk
PollToolName(token) ==
    IF token.tool_call_chunks = <<>> THEN ""
    ELSE LET c == token.tool_call_chunks[1]
             fromCalls == IF ToolCallsOf(c) /= <<>> THEN ToolCallsOf(c)[1].name
                          ELSE ""
         IN IF c.name /= "" THEN c.name ELSE fromCalls

PollToolArgs(token) ==
    IF token.tool_call_chunks = <<>> THEN <<>>
    ELSE token.tool_call_chunks[1].args

\* a rendering that passes the <<STEP_END>> string on
PollRenderRaw(token, complete) ==
    IF token = STEP_END THEN (IF complete THEN <<>> ELSE <<token.str>>)
    ELSE IF complete THEN <<>>
    ELSE (IF PollToolName(token) /= "" THEN StepOpen(PollToolName(token))
          ELSE <<>>) \o PollToolArgs(token)

\* stream_generator (lambda-code): text yielded for one item
PollRender(token, complete) ==
    IF token = STEP_END THEN (IF complete THEN <<>> ELSE StepClose)
    ELSE IF complete THEN <<>>
    ELSE (IF PollToolName(token) /= "" THEN StepOpen(PollToolName(token))
          ELSE <<>>) \o PollToolArgs(token)

\* stream_generator (lambda-code): the flags after one item
StartedAfter(token, started, complete) ==
    IF token /= STEP_END /\ ~complete /\ PollToolName(token) = "final_answer"
    THEN TRUE ELSE started

CompleteAfter(token, started, complete) ==
    IF token = STEP_END /\ ~complete /\ started THEN TRUE ELSE complete

\* a delta of malformed shape: an empty nameless chunk, and a tool_calls
\* entry of additional_kwargs that has no "function" key
MalformedDelta ==
    [str |-> "", tool_call_chunks |-> <<Chunk(0, "", <<>>)>>,
     additional_kwargs |-> [tool_calls |-> <<[index |-> 0]>>]]

\* the old-format fallback reads tc["function"] of the first tool_calls entry
\* of additional_kwargs: KeyError when the entry has no such key
FunctionKeyError(token) ==
    /\ "additional_kwargs" \in DOMAIN token
    /\ token.additional_kwargs.tool_calls /= <<>>
    /\ "function" \notin DOMAIN token.additional_kwargs.tool_calls[1]

\* stream_generator (lambda-code): the try block raises on this item
PollRaises(token, complete) ==
    /\ token /= STEP_END
    /\ ~complete
    /\ PollToolName(token) = ""
    /\ PollToolArgs(token) = <<>>
    /\ FunctionKeyError(token)

\* a consumer without the except clause: the exception leaves the generator
PollAfterItemUncaught(token, complete) ==
    IF PollRaises(token, complete) THEN "failed" ELSE "poll"

\* stream_generator (lambda-code): where the consumer goes after an item
\* other than <<DONE>>: the loop continues, after the except clause too
PollAfterItem(token, complete) == "poll"

\* stream_response (application/api): the try block raises on this item
ApiRaises(token) ==
    /\ token /= STEP_END
    /\ FunctionKeyError(token)

\* stream_response (application/api): text yielded for one item
ApiRender(token) ==
    IF token = STEP_END THEN StepClose
    ELSE IF token.tool_call_chunks = <<>> THEN <<>>
    ELSE LET c == token.tool_call_chunks[1]
         IN (IF c.name /= "" THEN StepOpen(c.name) ELSE <<>>) \o c.args

----------------------------------------------------------------------------
(* lambda-code/app.py stream_generator *)

\* queue.empty() and the task still runs: asyncio.sleep
PollSleep ==
    /\ cpc = "poll"
    /\ queue = <<>>
    /\ ~TaskDone
    /\ cpc' = "sleep"
    /\ UNCHANGED <<final_answer_started, final_answer_complete, out, received>>
    /\ UNCHANGED <<invokeVars, handlerVars>>

\* the sleep is over
Wake ==
    /\ cpc = "sleep"
    /\ cpc' = "poll"
    /\ UNCHANGED <<final_answer_started, final_answer_complete, out, received>>
    /\ UNCHANGED <<invokeVars, handlerVars>>

\* a consumer that leaves as soon as the task is done, whatever is queued
PollTaskDoneAnyQueue ==
    /\ cpc = "poll"
    /\ TaskDone
    /\ cpc' = "finished"
    /\ UNCHANGED <<final_answer_started, final_answer_complete, out, received>>
    /\ UNCHANGED <<invokeVars, handlerVars>>

\* queue.empty() and task.done(): break; the task is done, it is not awaited
PollTaskDone ==
    /\ cpc = "poll"
    /\ queue = <<>>
    /\ TaskDone
    /\ cpc' = "finished"
    /\ UNCHANGED <<final_answer_started, final_answer_complete, out, received>>
    /\ UNCHANGED <<invokeVars, handlerVars>>

\* queue.get() and the processing of the item
PollGet ==
    /\ cpc = "poll"
    /\ queue /= <<>>
    /\ LET token == QueueGet(queue).item
       IN /\ queue' = QueueGet(queue).rest
          /\ received' = Append(received, token)
          /\ IF token = DONE
             THEN /\ cpc' = IF TaskDone THEN "finished" ELSE "awaiting"
                  /\ UNCHANGED <<final_answer_started, final_answer_complete, out>>
             ELSE /\ cpc' = PollAfterItem(token, final_answer_complete)
                  /\ IF PollRaises(token, final_answer_complete)
                     THEN UNCHANGED <<out, final_answer_started,
                                      final_answer_complete>>
                     ELSE /\ out' = out \o PollRender(token, final_answer_complete)
                          /\ final_answer_started' =
                                 StartedAfter(token, final_answer_started,
                                              final_answer_complete)
                          /\ final_answer_complete' =
                                 CompleteAfter(token, final_answer_started,
                                               final_answer_complete)
    /\ UNCHANGED <<invokeVars, final_answer_seen, published>>

\* await task: returns when the task returned, raises when it raised
AwaitTask ==
    /\ cpc = "awaiting"
    /\ TaskDone
    /\ cpc' = IF pc = "raised" THEN "failed" ELSE "finished"
    /\ UNCHANGED <<final_answer_started, final_answer_complete, out, received>>
    /\ UNCHANGED <<invokeVars, handlerVars>>

AppNext == PollSleep \/ Wake \/ PollTaskDone \/ PollGet \/ AwaitTask

----------------------------------------------------------------------------
(* application/api/lambda_handler.py stream_response over __aiter__ *)

\* __aiter__: queue.empty(): asyncio.sleep, whatever the state of the task
AiterSleep ==
    /\ cpc = "poll"
    /\ queue = <<>>
    /\ cpc' = "sleep"
    /\ UNCHANGED <<final_answer_started, final_answer_complete, out, received>>
    /\ UNCHANGED <<invokeVars, handlerVars>>

\* __aiter__: queue.get(); <<DONE>> ends the iteration, any other item is
\* yielded to the body of the async for
AiterGet ==
    /\ cpc = "poll"
    /\ queue /= <<>>
    /\ LET token == QueueGet(queue).item
       IN /\ queue' = QueueGet(queue).rest
          /\ received' = Append(received, token)
          /\ IF token = DONE
             THEN /\ cpc' = "awaiting"
                  /\ UNCHANGED out
             ELSE /\ cpc' = "poll"
                  /\ out' = IF ApiRaises(token) THEN out
                            ELSE out \o ApiRender(token)
    /\ UNCHANGED <<final_answer_started, final_answer_complete>>
    /\ UNCHANGED <<invokeVars, final_answer_seen, published>>

ApiNext == AiterSleep \/ Wake \/ AiterGet \/ AwaitTask

----------------------------------------------------------------------------
(* Specifications *)

\* invoke run by stream_generator of lambda-code/app.py
Next == InvokeNext \/ AppNext
Spec == Init /\ [][Next]_vars

\* invoke run by stream_response of application/api/lambda_handler.py
NextApi == InvokeNext \/ ApiNext
SpecApi == Init /\ [][NextApi]_vars

----------------------------------------------------------------------------
(* Helpers of the properties *)

\* the number of <<DONE>> items in a sequence of queue items
IsDone(item) == item = DONE
DoneCount(items) == Len(SelectSeq(items, IsDone))

\* the answer carried by a value returned by invoke
ResultAnswer(r) ==
    IF "answer" \in DOMAIN r THEN r.answer ELSE AnswerOf(r.args)

\* tool-call ids are unique within a turn
UniqueIds(calls) ==
    \A i, j \in 1..Len(calls) :
        calls[i].tool_call_id = calls[j].tool_call_id => i = j

\* the (call, own result) pairs of one turn, in the order the calls were issued
PairsOf(calls) ==
    [j \in 1..(2 * Len(calls)) |->
        IF j % 2 = 1 THEN calls[(j + 1) \div 2]
        ELSE ExecuteTool(calls[j \div 2])]

RECURSIVE PairsOfTurns(_)
PairsOfTurns(ts) ==
    IF ts = <<>> THEN <<>>
    ELSE PairsOfTurns(SubSeq(ts, 1, Len(ts) - 1)) \o PairsOf(ts[Len(ts)])

\* final_answer was named by a chunk of the turn, complete or not
NamedFinal(outs) == \E i \in 1..Len(outs) : outs[i].name = "final_answer"

----------------------------------------------------------------------------
(* C1: every invocation performs at most max_iterations model-call /       *)
(* tool-dispatch cycles: count never exceeds max_iterations, and no model  *)
(* call or dispatch is in progress once count has reached it.              *)
C1_AtMostMaxIterations ==
    /\ count <= max_iterations
    /\ Len(ended) <= max_iterations
    /\ Len(turns) = count
    /\ pc \in {"astream", "gather"} => count < max_iterations

C1_Witness == pc = "returned" /\ count = max_iterations

(* C2: when a turn contains a final_answer call, no model call follows     *)
(* that turn and the returned result carries exactly the answer argument   *)
(* of that call, the empty string included.                                *)
C2_FinalAnswerReturned ==
    pc = "returned" =>
        \A t \in 1..Len(turns) :
            FirstFinal(turns[t]) /= 0 =>
                /\ t = Len(ended)
                /\ ResultAnswer(result.v) =
                       AnswerOf(turns[t][FirstFinal(turns[t])].tool_calls[1].args)

(* C3: when max_iterations turns were produced and none contains a         *)
(* final_answer call, invoke runs max_iterations dispatch cycles and       *)
(* returns exactly the fallback result.                                    *)
C3_BudgetExhaustedFallback ==
    ( /\ TaskDone
      /\ Len(ended) = max_iterations
      /\ \A t \in 1..Len(ended) : FirstFinal(StreamResult(ended[t].outputs)) = 0 )
    => /\ pc = "returned"
       /\ count = max_iterations
       /\ result = Some(Fallback)

(* C4: with tool-call ids unique within each turn, the scratchpad is at    *)
(* every point the sequence of (call, own result) pairs of the folded      *)
(* turns, in turn order and in the order the calls were issued, whatever   *)
(* order the tool tasks completed in.                                      *)
C4_ScratchpadPairs ==
    (\A t \in 1..Len(turns) : UniqueIds(turns[t]))
        => agent_scratchpad = PairsOfTurns(turns)

C4_Witness ==
    /\ pc \in {"while", "break"}
    /\ Len(tool_calls) = 2
    /\ UniqueIds(tool_calls)
    /\ tool_calls[1].tool_calls /= tool_calls[2].tool_calls
    /\ done_order = <<2, 1>>
    /\ turns[Len(turns)] = tool_calls

(* C5: a failing tool invocation does not abort the invocation: its        *)
(* failure is recorded in the scratchpad and the loop goes on.             *)
C5_ToolFailureRecorded == ~(pc = "raised" /\ error = "tool")

(* C6: an invocation that runs to completion has put exactly one <<DONE>>  *)
(* on the queue.                                                           *)
C6_ExactlyOneDone == pc = "returned" => DoneCount(published) = 1

(* C10: a turn ends with <<DONE>> if it named final_answer and with        *)
(* <<STEP_END>> if it did not.                                             *)
C10_SentinelMatchesTurn ==
    \A t \in 1..Len(ended) :
        ended[t].sentinel = DONE <=> NamedFinal(ended[t].outputs)

(* C7: when the model call fails outright, a <<DONE>> (the only terminal  *)
(* event the handler has) is still published for the consumer iterating    *)
(* the handler.  Nothing is published once the task has raised, so this is *)
(* a property of the state in which it raised.                             *)
C7_DoneAfterModelFailure ==
    (pc = "raised" /\ error = "model") => DoneCount(published) >= 1

(* C8: when the invoke task ended with a model-call failure, a consumer    *)
(* that has ended has ended in failure.                                    *)
C8_FailureSurfaced ==
    (pc = "raised" /\ error = "model" /\ cpc \in {"finished", "failed"})
        => cpc = "failed"

(* C9: the consumer receives the published items in publication order,     *)
(* each one once: what was received followed by what is still queued is    *)
(* what was published.                                                     *)
C9_FifoOnce == published = received \o queue

C9_Witness ==
    /\ Len(received) >= 2
    /\ received[1] /= received[2]
    /\ queue /= <<>>

----------------------------------------------------------------------------
(* lambda-code/app.py stream_generator closed by its reader at a yield *)

\* stream_generator: the first fragment it yields for one item (<<>>: none)
PollFirstYield(token, complete) ==
    IF token = STEP_END THEN (IF complete THEN <<>> ELSE StepClose)
    ELSE IF complete THEN <<>>
    ELSE IF PollToolName(token) /= "" THEN StepOpen(PollToolName(token))
    ELSE PollToolArgs(token)

\* queue.get(), the item is processed up to its first yield and the reader
\* closes the generator there: GeneratorExit is no Exception, it leaves the
\* try block and the generator; nothing cancels or awaits the task
CloseAtYield ==
    /\ cpc = "poll"
    /\ queue /= <<>>
    /\ LET token == QueueGet(queue).item
       IN /\ token /= DONE
          /\ PollFirstYield(token, final_answer_complete) /= <<>>
          /\ queue' = QueueGet(queue).rest
          /\ received' = Append(received, token)
          /\ out' = out \o PollFirstYield(token, final_answer_complete)
    /\ cpc' = "closed"
    /\ UNCHANGED <<final_answer_started, final_answer_complete>>
    /\ UNCHANGED <<invokeVars, final_answer_seen, published>>

\* invoke run by stream_generator whose reader may stop reading
NextClose == InvokeNext \/ AppNext \/ CloseAtYield
SpecClose == Init /\ [][NextClose]_vars

(* C11: when the reader closes stream_generator at a yield, the invoke     *)
(* task has been drained or cancelled: it is not left running.             *)
C11_TaskNotOrphaned == cpc = "closed" => TaskDone

(* C12: a model call is in progress only when every earlier turn is        *)
(* folded: all its tool tasks have returned and all its (call, result)     *)
(* pairs are in the scratchpad.                                            *)
C12_SequentialIterations ==
    pc = "astream" =>
        /\ Len(turns) = Len(ended)
        /\ \A t \in 1..Len(ended) : turns[t] = StreamResult(ended[t].outputs)
        /\ \A i \in 1..Len(tool_calls) : ~tool_obs[i].is_none
        /\ Len(agent_scratchpad) = Len(PairsOfTurns(turns))

C12_Witness ==
    /\ pc = "astream"
    /\ Len(turns) >= 1
    /\ Len(turns[Len(turns)]) = 2
    /\ Len(agent_scratchpad) = 4

----------------------------------------------------------------------------
(* Successive invocations on the module-level agent_executor *)

MaxInvocations == 2       \* invocations started on the executor

\* the previous invocation has ended and the executor is invoked again: a
\* new queue, handler and consumer, new locals of invoke, the same
\* chat_history
NewInvocation ==
    /\ TaskDone
    /\ invocations < MaxInvocations
    /\ invocations' = invocations + 1
    /\ pc' = "while"
    /\ count' = 0
    /\ final_answer' = None
    /\ final_answer_call' = None
    /\ agent_scratchpad' = <<>>
    /\ outputs' = <<>>
    /\ tool_calls' = <<>>
    /\ tool_obs' = <<>>
    /\ done_order' = <<>>
    /\ result' = None
    /\ error' = ""
    /\ turns' = <<>>
    /\ ended' = <<>>
    /\ queue' = <<>>
    /\ final_answer_seen' = FALSE
    /\ published' = <<>>
    /\ cpc' = "poll"
    /\ final_answer_started' = FALSE
    /\ final_answer_complete' = FALSE
    /\ out' = <<>>
    /\ received' = <<>>
    /\ UNCHANGED <<chat_history, budget, completed, peer, splitVars>>

NextHistory == InvokeNext \/ NewInvocation
SpecHistory == InitInvoke /\ [][NextHistory]_vars

\* the answer an invocation about to return has found: the answer argument
\* of the first final_answer call of its last turn when that is a non-empty
\* text, "No answer found" otherwise
LastTurnAnswer ==
    IF turns = <<>> \/ FirstFinal(turns[Len(turns)]) = 0 THEN <<>>
    ELSE AnswerOf(turns[Len(turns)][FirstFinal(turns[Len(turns)])].tool_calls[1].args)
AnswerOrNone == IF LastTurnAnswer /= <<>> THEN LastTurnAnswer ELSE NoAnswerFound

\* chat_history holds one (HumanMessage, AIMessage) pair per returned
\* invocation
HistoryInPairs ==
    /\ Len(chat_history) = 2 * completed
    /\ \A k \in 1..completed :
          /\ chat_history[2 * k - 1].type = "human"
          /\ chat_history[2 * k].type = "ai"

\* a step that changes chat_history is the return of an invocation and
\* appends that invocation's pair to the unchanged earlier entries
HistoryStep ==
    chat_history' /= chat_history =>
        /\ pc /= "returned" /\ pc' = "returned"
        /\ chat_history' = chat_history \o
               <<HumanMessage(InputOf(invocations)), AnswerMessage(AnswerOrNone)>>

\* a step in which an invocation returns changes chat_history
ReturnStep == (pc /= "returned" /\ pc' = "returned") => chat_history' /= chat_history

TokenStep ==
    pc = "astream" /\ pc' = "astream" /\ Len(published') = Len(published) + 1

(* C14: in stream(), a delta whose first tool-call chunk carries an id or  *)
(* a name starts a new pending call; one carrying neither is appended to   *)
(* the args of the most recently started pending call; a continuation      *)
(* arriving when there is no pending call is discarded.                    *)
C14_Accumulation ==
    [][TokenStep /\ published'[Len(published')].tool_call_chunks /= <<>> =>
        LET c == published'[Len(published')].tool_call_chunks[1]
            n == Len(outputs)
        IN IF c.id /= 0 \/ c.name /= ""
           THEN outputs' = outputs \o <<c>>
           ELSE IF n = 0 THEN outputs' = <<>>
           ELSE /\ Len(outputs') = n
                /\ SubSeq(outputs', 1, n - 1) = SubSeq(outputs, 1, n - 1)
                /\ outputs'[n].id = outputs[n].id
                /\ outputs'[n].name = outputs[n].name
                /\ outputs'[n].args = outputs[n].args \o c.args]_vars

C14_Witness ==
    /\ pc = "astream"
    /\ ended = <<>>
    /\ Len(published) = 3
    /\ published[1].tool_call_chunks /= <<>>
    /\ published[1].tool_call_chunks[1].name = ""
    /\ Len(outputs) = 1
    /\ Len(outputs[1].args) = 2

----------------------------------------------------------------------------
(* stream() fed with one tool call whose args text arrives in fragments *)

MaxArgLen == 3            \* symbols of the args text of the call

ArgSymbols == {"q", "5", "#"}
ArgTexts == UNION { [1..n -> ArgSymbols] : n \in 0..MaxArgLen }

DeltaOf(c) == [str |-> "", tool_call_chunks |-> <<c>>]

\* the k-th smallest element of a set of numbers
Nth(S, k) == CHOOSE x \in S : Cardinality({ y \in S : y < x }) = k - 1

\* the pieces of a text cut after the positions of cuts
Pieces(text, cuts) ==
    LET bounds == {0, Len(text)} \cup cuts
    IN [k \in 1..(Cardinality(bounds) - 1) |->
            SubSeq(text, Nth(bounds, k) + 1, Nth(bounds, k + 1))]

\* the deltas of a call: the first carries id and name (and the first piece
\* unless bare), every later one carries neither
Fragments(i, n, text, cuts, bare) ==
    LET ps == Pieces(text, cuts)
        conts == IF bare \/ ps = <<>> THEN ps ELSE Tail(ps)
        first == IF bare \/ ps = <<>> THEN <<>> ELSE Head(ps)
    IN <<DeltaOf(Chunk(i, n, first))>> \o
       [k \in 1..Len(conts) |-> DeltaOf(Chunk(0, "", conts[k]))]

\* the model call of the first turn is about to stream one call
InitSplit ==
    /\ pc = "astream"
    /\ count = 0
    /\ final_answer = None
    /\ final_answer_call = None
    /\ agent_scratchpad = <<>>
    /\ outputs = <<>>
    /\ tool_calls = <<>>
    /\ tool_obs = <<>>
    /\ done_order = <<>>
    /\ chat_history = <<>>
    /\ result = None
    /\ budget = 0
    /\ error = ""
    /\ turns = <<>>
    /\ ended = <<>>
    /\ queue = <<>>
    /\ final_answer_seen = FALSE
    /\ published = <<>>
    /\ cpc = "poll"
    /\ final_answer_started = FALSE
    /\ final_answer_complete = FALSE
    /\ out = <<>>
    /\ received = <<>>
    /\ invocations = 1
    /\ completed = 0
    /\ peer = PeerIdle
    /\ \E i \in {1, 2}, n \in {"add", "final_answer"}, text \in ArgTexts,
          bare \in BOOLEAN :
          \E cuts \in SUBSET (1..(Len(text) - 1)) :
              /\ whole = Chunk(i, n, text)
              /\ frags = Fragments(i, n, text, cuts, bare)

\* the next fragment arrives: on_llm_new_token, then the body of the async
\* for of stream()
FeedFragment ==
    /\ pc = "astream"
    /\ frags /= <<>>
    /\ frags' = Tail(frags)
    /\ final_answer_seen' = SeenAfterToken(final_answer_seen, Head(frags))
    /\ queue' = QueuePut(queue, Head(frags))
    /\ published' = Append(published, Head(frags))
    /\ outputs' = Accumulate(outputs, Head(frags))
    /\ UNCHANGED <<pc, count, final_answer, final_answer_call,
                   agent_scratchpad, tool_calls, tool_obs, done_order,
                   chat_history, result, budget, error, turns, ended, whole>>
    /\ UNCHANGED <<consumerVars, sessionVars>>

\* every fragment has arrived and the model call ends
SplitEnd == frags = <<>> /\ OnLlmEnd

NextSplit == FeedFragment \/ SplitEnd
SpecSplit == InitSplit /\ [][NextSplit]_vars

(* C15: whatever way the args text of a tool call is split into ordered    *)
(* fragments, stream() returns the same tool calls as for the call         *)
(* arriving in one unsplit chunk.                                          *)
C15_SplitIndependent ==
    pc = "gather" => tool_calls = StreamResult(Accumulate(<<>>, DeltaOf(whole)))

C15_Witness ==
    /\ pc = "gather"
    /\ Len(published) = 4
    /\ whole.args = <<"q", "5", "q">>
    /\ Len(tool_calls) = 1

----------------------------------------------------------------------------
(* invoke alone, every model call and every tool task finishing: the task  *)
(* keeps taking steps while it has one to take; no consumer step is taken  *)

SpecInvokeFair == InitInvoke /\ [][InvokeNext]_vars /\ WF_vars(InvokeNext)

(* C16: publishing never blocks on the consumer: with a consumer that      *)
(* takes no step at all, the invoke task still reaches its end, everything *)
(* it published sitting unread in the queue.                               *)
C16_ProducerNeverStalled ==
    <>(TaskDone /\ received = <<>> /\ queue = published)

C16_Witness ==
    /\ TaskDone
    /\ received = <<>>
    /\ Len(queue) >= 5
    /\ queue = published

(* C19: every invocation of invoke eventually returns or raises, also when *)
(* the model never selects final_answer.                                   *)
C19_InvokeTerminates == <>(pc \in {"returned", "raised"})

C19_Witness ==
    /\ pc = "returned"
    /\ Len(ended) = max_iterations
    /\ \A t \in 1..Len(ended) : ~NamedFinal(ended[t].outputs)
    /\ result = Some(Fallback)

----------------------------------------------------------------------------
(* The text of the output stream *)

IsOpening(text, i) == text[i] = StepOpen("")[1]
IsClosing(text, i) == text[i] = StepClose[1]

\* the step names of the openings of a text, in order
RECURSIVE OpeningNames(_)
OpeningNames(text) ==
    IF text = <<>> THEN <<>>
    ELSE IF IsOpening(text, 1) /\ Len(text) >= 2
         THEN <<text[2]>> \o OpeningNames(Tail(text))
         ELSE OpeningNames(Tail(text))

\* between two openings there is a closing
NoOpeningInsideStep(text) ==
    \A i, k \in 1..Len(text) :
        (i < k /\ IsOpening(text, i) /\ IsOpening(text, k)) =>
            \E j \in (i + 1)..(k - 1) : IsClosing(text, j)

\* every opening is followed by a closing
EveryStepClosed(text) ==
    \A i \in 1..Len(text) :
        IsOpening(text, i) => \E j \in (i + 1)..Len(text) : IsClosing(text, j)

(* C17: in the text produced by stream_generator every <step> opening is   *)
(* followed by its own </step> before the next opening and before the end  *)
(* of the stream.                                                          *)
C17_StepBlocksComplete ==
    /\ NoOpeningInsideStep(out)
    /\ cpc \in {"finished", "failed"} => EveryStepClosed(out)

IsStepEnd(item) == item = STEP_END
IsStepClose(sym) == sym = StepClose[1]

\* no sentinel string is part of the output, and every </step> of the
\* output stands for a received <<STEP_END>>
SentinelsNotInOutput ==
    /\ \A i \in 1..Len(out) : out[i] /= DONE.str /\ out[i] /= STEP_END.str
    /\ Len(SelectSeq(out, IsStepClose)) <= Len(SelectSeq(received, IsStepEnd))

\* <<DONE>> ends the consumption
DoneEndsConsumption ==
    DoneCount(received) >= 1 =>
        /\ cpc \in {"awaiting", "finished", "failed"}
        /\ received[Len(received)] = DONE

\* once <<DONE>> was received nothing is taken or yielded any more
NothingAfterDone ==
    DoneCount(received) >= 1 => (out' = out /\ received' = received)

(* C18: the sentinels are never passed on as output: <<DONE>> ends the     *)
(* consumption without being yielded and nothing is yielded after it, and  *)
(* <<STEP_END>> only ever shows as </step> or not at all.                  *)
C18_SentinelsHidden ==
    [](SentinelsNotInOutput /\ DoneEndsConsumption) /\ [][NothingAfterDone]_vars

C18_Witness ==
    /\ cpc = "finished"
    /\ DoneCount(received) = 1
    /\ queue /= <<>>
    /\ Len(SelectSeq(received, IsStepEnd)) >= 1
    /\ Len(SelectSeq(out, IsStepClose)) >= 1

----------------------------------------------------------------------------
(* Scenario A: the model emits one complete add call in turn 1 and, in     *)
(* turn 2, a final_answer call whose answer "5" arrives as a continuation; *)
(* no model call and no tool fails; stream_generator of app.py consumes.   *)

\* the deltas of the two turns: the add call in one delta, then the
\* final_answer call cut into deltas in any way
ScenarioA ==
    { <<DeltaOf(Chunk(1, "add", <<"q">>))>> \o
          Fragments(2, "final_answer", <<"q", "5">>, cuts, bare) :
      cuts \in SUBSET {1}, bare \in BOOLEAN }

\* the deltas of a script that belong to turn 1
ScenarioATurn1 == 1

\* frags holds the whole script, budget the deltas still to come
InitScenarioA == \E script \in ScenarioA : InitFrom(Len(script), script)

Emitted == Len(frags) - budget

ScenarioAToken ==
    /\ \/ Len(ended) = 0 /\ Emitted < ScenarioATurn1
       \/ Len(ended) = 1 /\ Emitted >= ScenarioATurn1
    /\ budget > 0
    /\ OnToken(frags[Emitted + 1])

ScenarioAEnd ==
    /\ \/ Len(ended) = 0 /\ Emitted = ScenarioATurn1
       \/ Len(ended) = 1 /\ Emitted = Len(frags)
    /\ OnLlmEnd

\* PollTaskDone is left out: the task ends after its <<DONE>> is queued, so
\* the consumer never finds the queue empty with the task done
NextScenarioA ==
    \/ LoopEnter
    \/ ScenarioAToken
    \/ ScenarioAEnd
    \/ \E i \in 1..Len(tool_calls) : ToolCompletes(i)
    \/ Fold
    \/ Return
    \/ PollSleep
    \/ Wake
    \/ PollGet
    \/ AwaitTask

SpecScenarioA == InitScenarioA /\ [][NextScenarioA]_vars

(* C20: in scenario A the output holds exactly two <step> openings, add    *)
(* then final_answer, the loop stops after exactly 2 iterations and the    *)
(* answer is "5".                                                          *)
C20_ScenarioA ==
    /\ count <= 2
    /\ Len(OpeningNames(out)) <= 2
    /\ (pc = "returned" /\ cpc = "finished") =>
          /\ OpeningNames(out) = <<"add", "final_answer">>
          /\ count = 2
          /\ Len(ended) = 2
          /\ ResultAnswer(result.v) = <<"5">>

C20_Witness ==
    /\ pc = "returned"
    /\ cpc = "finished"
    /\ out = StepOpen("add") \o <<"q">> \o StepClose \o
             StepOpen("final_answer") \o <<"q", "5">>

----------------------------------------------------------------------------
(* The model may also emit the delta of malformed shape *)

OnMalformedToken == OnToken(MalformedDelta)

NextMalformed == InvokeNext \/ OnMalformedToken \/ AppNext
SpecMalformed == Init /\ [][NextMalformed]_vars

\* what stream_generator yields for a run of items, the raising ones left out
RECURSIVE RenderedWithout(_, _, _)
RenderedWithout(items, started, complete) ==
    IF items = <<>> THEN <<>>
    ELSE LET t == Head(items)
         IN IF t = DONE THEN <<>>
            ELSE IF PollRaises(t, complete)
                 THEN RenderedWithout(Tail(items), started, complete)
                 ELSE PollRender(t, complete) \o
                      RenderedWithout(Tail(items),
                                      StartedAfter(t, started, complete),
                                      CompleteAfter(t, started, complete))

\* the step takes from the queue an item whose processing raises
ConsumesRaising ==
    /\ received' /= received
    /\ PollRaises(received'[Len(received')], final_answer_complete)

OnlyThatDeltaDropped ==
    ConsumesRaising =>
        /\ out' = out
        /\ final_answer_started' = final_answer_started
        /\ final_answer_complete' = final_answer_complete
        /\ cpc' = "poll"

(* C21: when the processing of one queued delta raises in the stream       *)
(* consumer, only that delta is dropped: nothing is yielded for it, the    *)
(* flags of the consumer are unchanged, the consumer does not fail because *)
(* of it, and the output is the rendering, in order, of all the other      *)
(* items received.                                                         *)
C21_MalformedDeltaDropped ==
    /\ [](out = RenderedWithout(received, FALSE, FALSE))
    /\ [](cpc = "failed" => pc = "raised")
    /\ [][OnlyThatDeltaDropped]_vars

C21_Witness ==
    /\ Len(received) = 3
    /\ received[1] = MalformedDelta
    /\ received[2] = DeltaOf(Chunk(1, "add", <<"q">>))
    /\ received[3] = STEP_END
    /\ out = StepOpen("add") \o <<"q">> \o StepClose

----------------------------------------------------------------------------
(* C22: the async iteration over QueueCallbackHandler ends for every       *)
(* invocation whose invoke task completes.  Once the task has returned     *)
(* nothing more is published, so an iteration that has taken every         *)
(* published item and is still sleeping and polling never ends: the claim  *)
(* says no such state exists.                                              *)
C22_AiterEnds ==
    (pc = "returned" /\ queue = <<>>) => cpc \notin {"poll", "sleep"}

----------------------------------------------------------------------------
(* stream_generator and its task under a fair scheduler: the event loop    *)
(* runs every coroutine that is ready                                      *)
SpecFair == Init /\ [][Next]_vars /\ WF_vars(InvokeNext) /\ WF_vars(AppNext)

(* C23: the polling consumer terminates in every invocation whose invoke   *)
(* task terminates, whether the task returned an answer, returned the      *)
(* fallback or raised.                                                     *)
C23_PollingConsumerTerminates ==
    (pc \in {"returned", "raised"}) ~> (cpc \in {"finished", "failed"})

C23_Witness ==
    /\ pc = "raised"
    /\ cpc = "finished"
    /\ received /= <<>>

----------------------------------------------------------------------------
\* the step leaves the while loop of stream_generator
ExitsLoop == cpc = "poll" /\ cpc' \in {"finished", "awaiting", "failed"}

ExitsOnDone ==
    /\ received' = Append(received, DONE)
    /\ queue /= <<>>
    /\ Head(queue) = DONE

ExitsOnTaskDone ==
    /\ TaskDone
    /\ queue = <<>>
    /\ received = published
    /\ UNCHANGED <<received, queue>>

(* C24: under every interleaving of the task and stream_generator, the     *)
(* consumer leaves its loop only by consuming <<DONE>> or with the task    *)
(* done and the queue empty, and in the second case every item published   *)
(* has been consumed.                                                      *)
C24_ExitOnlyWhenDrained ==
    [][ExitsLoop => (ExitsOnDone \/ ExitsOnTaskDone)]_vars

C24_Witness ==
    /\ cpc = "finished"
    /\ DoneCount(received) = 0
    /\ Len(received) >= 2
    /\ received = published

----------------------------------------------------------------------------
\* chat_history changes only in the step in which an invocation returns
HistoryChangesOnReturn ==
    chat_history' /= chat_history => (pc /= "returned" /\ pc' = "returned")

\* the step in which an invocation raises leaves chat_history alone, and an
\* invocation that returned or raised does nothing more
RaiseKeepsHistory ==
    /\ pc' = "raised" => chat_history' = chat_history
    /\ pc \in {"returned", "raised"} => pc' \in {pc, "while"}

(* C25: an invocation of invoke that ends with an exception, of the model  *)
(* call or of a tool, leaves chat_history as it was before the invocation: *)
(* chat_history changes only in the step that returns, an invocation that  *)
(* raises has no such step, and chat_history holds one pair for every      *)
(* invocation that returned and nothing else.                              *)
C25_ExceptionKeepsHistory ==
    /\ [](Len(chat_history) = 2 * completed)
    /\ [][HistoryChangesOnReturn /\ RaiseKeepsHistory]_vars

C25_Witness ==
    /\ pc = "raised"
    /\ error = "tool"
    /\ invocations = 2
    /\ completed = 1
    /\ Len(chat_history) = 2

----------------------------------------------------------------------------
(* Two invocations running concurrently on the module-level agent_executor *)
(* A second request arrives while the first invoke task exists: its task   *)
(* has its own queue, handler and locals and shares chat_history.  Its     *)
(* loop iteration is one step: between its awaits it touches its locals    *)
(* only.                                                                   *)

PeerInput == <<"peer input">>
PeerAnswers == { <<>>, <<"7">> }

\* asyncio.create_task(agent_executor.invoke(...)) of the second request
PeerInvoke ==
    /\ peer.pc = "idle"
    /\ peer' = [pc |-> "while", count |-> 0, final_answer |-> None]
    /\ UNCHANGED <<pc, count, final_answer, final_answer_call,
                   agent_scratchpad, outputs, tool_calls, tool_obs,
                   done_order, chat_history, result, budget, error, turns,
                   ended, invocations, completed, splitVars>>
    /\ UNCHANGED <<handlerVars, consumerVars>>

\* one iteration of the loop of the second task without final_answer
PeerIterates ==
    /\ peer.pc = "while"
    /\ LoopContinues(peer.count)
    /\ peer' = [peer EXCEPT !.count = peer.count + 1]
    /\ UNCHANGED <<pc, count, final_answer, final_answer_call,
                   agent_scratchpad, outputs, tool_calls, tool_obs,
                   done_order, chat_history, result, budget, error, turns,
                   ended, invocations, completed, splitVars>>
    /\ UNCHANGED <<handlerVars, consumerVars>>

\* one iteration of the second task that finds a final_answer call
PeerFindsAnswer(a) ==
    /\ peer.pc = "while"
    /\ LoopContinues(peer.count)
    /\ peer' = [pc |-> "break", count |-> peer.count + 1,
                final_answer |-> Some(a)]
    /\ UNCHANGED <<pc, count, final_answer, final_answer_call,
                   agent_scratchpad, outputs, tool_calls, tool_obs,
                   done_order, chat_history, result, budget, error, turns,
                   ended, invocations, completed, splitVars>>
    /\ UNCHANGED <<handlerVars, consumerVars>>

\* the model call or a tool of the second task raises
PeerRaises ==
    /\ peer.pc = "while"
    /\ LoopContinues(peer.count)
    /\ peer' = [peer EXCEPT !.pc = "raised"]
    /\ UNCHANGED <<pc, count, final_answer, final_answer_call,
                   agent_scratchpad, outputs, tool_calls, tool_obs,
                   done_order, chat_history, result, budget, error, turns,
                   ended, invocations, completed, splitVars>>
    /\ UNCHANGED <<handlerVars, consumerVars>>

\* a second task suspended between the append of its HumanMessage and the
\* append of its AIMessage
PeerReturnSuspended ==
    /\ \/ peer.pc = "break"
       \/ peer.pc = "while" /\ ~LoopContinues(peer.count)
    /\ chat_history' = ExtendedHistory(chat_history, <<HumanMessage(PeerInput)>>)
    /\ peer' = [peer EXCEPT !.pc = "extending"]
    /\ UNCHANGED <<pc, count, final_answer, final_answer_call,
                   agent_scratchpad, outputs, tool_calls, tool_obs,
                   done_order, result, budget, error, turns,
                   ended, invocations, completed, splitVars>>
    /\ UNCHANGED <<handlerVars, consumerVars>>

\* the second task leaves its loop: one extend call, then return
PeerReturn ==
    /\ \/ peer.pc = "break"
       \/ peer.pc = "while" /\ ~LoopContinues(peer.count)
    /\ chat_history' = ExtendedHistory(chat_history,
           <<HumanMessage(PeerInput),
             AnswerMessage(HistoryAnswer(peer.final_answer))>>)
    /\ peer' = [peer EXCEPT !.pc = "returned"]
    /\ UNCHANGED <<pc, count, final_answer, final_answer_call,
                   agent_scratchpad, outputs, tool_calls, tool_obs,
                   done_order, result, budget, error, turns,
                   ended, invocations, completed, splitVars>>
    /\ UNCHANGED <<handlerVars, consumerVars>>

PeerNext ==
    \/ PeerInvoke
    \/ PeerIterates
    \/ \E a \in PeerAnswers : PeerFindsAnswer(a)
    \/ PeerRaises
    \/ PeerReturn

NextConcurrent == InvokeNext \/ PeerNext
SpecConcurrent == Init /\ [][NextConcurrent]_vars

\* the number of invocations whose pair is in chat_history
PairsAppended == completed + (IF peer.pc = "returned" THEN 1 ELSE 0)

HistoryAlternates ==
    /\ Len(chat_history) = 2 * PairsAppended
    /\ \A i \in 1..Len(chat_history) :
           chat_history[i].type = (IF i % 2 = 1 THEN "human" ELSE "ai")

\* the message after the HumanMessage of an invocation is the AIMessage of
\* that invocation
OwnAnswerFollows ==
    \A i \in 1..Len(chat_history) :
        /\ chat_history[i] = HumanMessage(PeerInput) =>
               /\ i < Len(chat_history)
               /\ chat_history[i + 1] =
                      AnswerMessage(HistoryAnswer(peer.final_answer))
        /\ chat_history[i] = HumanMessage(InputOf(invocations)) =>
               /\ i < Len(chat_history)
               /\ chat_history[i + 1] =
                      AnswerMessage(HistoryAnswer(final_answer))

(* C26: when two invocations run concurrently on the shared                *)
(* agent_executor, under every interleaving each invocation's              *)
(* (HumanMessage, AIMessage) pair is appended contiguously: chat_history   *)
(* alternates user and assistant messages and each assistant message       *)
(* directly follows the user message of its own invocation.                *)
C26_PairsContiguous == HistoryAlternates /\ OwnAnswerFollows

C26_Witness ==
    /\ Len(chat_history) = 4
    /\ chat_history[1] = HumanMessage(PeerInput)
    /\ chat_history[2] = AnswerMessage(<<"7">>)
    /\ chat_history[3] = HumanMessage(InputOf(1))
    /\ chat_history[4] = AnswerMessage(<<"5">>)
    /\ Len(turns) = 2

====
